---- MODULE Spec2Model ----
(***************************************************************************)
(* Model of the .blobify validator of the VS Code extension                *)
(* (src/src/extension.ts, validateBlobifyFile and parseFilterCSV).         *)
(*                                                                         *)
(* A string is a sequence of one-character strings, a document is the      *)
(* sequence of its lines (document.getText().split("\n")).  Line numbers   *)
(* are 0-based as in the source: line i of the source is document[i + 1].  *)
(***************************************************************************)
EXTENDS Integers, Sequences, FiniteSets, TLC

VARIABLES
    document,          \* the lines of the open document, of uri "A"
    diagnostics,       \* the entry of the DiagnosticCollection for it
    languageId,        \* its language
    otherDocument,     \* the lines of a second open document, of uri "B"
    otherDiagnostics,  \* the entry of the DiagnosticCollection for it
    otherLanguageId,   \* its language
    validationEnabled, \* the setting blobify.validation.enabled
    lastCall,          \* the most recent call of validateBlobifyFile: the
                       \* handler that made it, the document, and the locals
                       \* of the call when its loop ended
    completion,        \* the most recent call of provideCompletionItems of
                       \* the inheritance completion provider, on "A"
    edits              \* the most recent call of the formatter: the document,
                       \* its lines at the call, and the edits returned

vars == <<document, diagnostics, languageId, otherDocument, otherDiagnostics,
          otherLanguageId, validationEnabled, lastCall, completion, edits>>

-----------------------------------------------------------------------------
(* String constants of the source.                                         *)

S_default == <<"d", "e", "f", "a", "u", "l", "t">>
S_copy_to_clipboard == <<"c", "o", "p", "y", "-", "t", "o", "-", "c", "l", "i", "p", "b", "o", "a", "r", "d">>
S_debug == <<"d", "e", "b", "u", "g">>
S_enable_scrubbing == <<"e", "n", "a", "b", "l", "e", "-", "s", "c", "r", "u", "b", "b", "i", "n", "g">>
S_output_line_numbers == <<"o", "u", "t", "p", "u", "t", "-", "l", "i", "n", "e", "-", "n", "u", "m", "b", "e", "r", "s">>
S_output_index == <<"o", "u", "t", "p", "u", "t", "-", "i", "n", "d", "e", "x">>
S_output_content == <<"o", "u", "t", "p", "u", "t", "-", "c", "o", "n", "t", "e", "n", "t">>
S_output_metadata == <<"o", "u", "t", "p", "u", "t", "-", "m", "e", "t", "a", "d", "a", "t", "a">>
S_show_excluded == <<"s", "h", "o", "w", "-", "e", "x", "c", "l", "u", "d", "e", "d">>
S_suppress_timestamps == <<"s", "u", "p", "p", "r", "e", "s", "s", "-", "t", "i", "m", "e", "s", "t", "a", "m", "p", "s">>
S_list_patterns == <<"l", "i", "s", "t", "-", "p", "a", "t", "t", "e", "r", "n", "s">>
S_true == <<"t", "r", "u", "e">>
S_false == <<"f", "a", "l", "s", "e">>
S_none == <<"n", "o", "n", "e">>
S_ignored == <<"i", "g", "n", "o", "r", "e", "d">>
S_contexts == <<"c", "o", "n", "t", "e", "x", "t", "s">>
S_filterPrefix == <<"@", "f", "i", "l", "t", "e", "r", "=">>

\* The nine names of the booleanOptions array.
booleanOptions ==
    { S_copy_to_clipboard, S_debug, S_enable_scrubbing, S_output_line_numbers,
      S_output_index, S_output_content, S_output_metadata, S_show_excluded,
      S_suppress_timestamps }

\* The three values accepted for list-patterns.
listPatternsValues == { S_none, S_ignored, S_contexts }

-----------------------------------------------------------------------------
(* String primitives of the JavaScript runtime, as the source uses them.   *)

\* The characters String.prototype.trim removes (the model's documents use
\* the space and the tab).
WhiteSpace == {" ", "\t"}

RECURSIVE TrimStart(_)
TrimStart(s) ==
    IF s # <<>> /\ Head(s) \in WhiteSpace THEN TrimStart(Tail(s)) ELSE s

RECURSIVE TrimEnd(_)
TrimEnd(s) ==
    IF s # <<>> /\ s[Len(s)] \in WhiteSpace
    THEN TrimEnd(SubSeq(s, 1, Len(s) - 1))
    ELSE s

\* s.trim()
Trim(s) == TrimEnd(TrimStart(s))

\* s.startsWith(p)
StartsWith(s, p) == Len(s) >= Len(p) /\ SubSeq(s, 1, Len(p)) = p

\* s.endsWith(p)
EndsWith(s, p) ==
    Len(s) >= Len(p) /\ SubSeq(s, Len(s) - Len(p) + 1, Len(s)) = p

\* 1-based position of the first c in s, 0 when there is none.
RECURSIVE IndexFrom(_, _, _)
IndexFrom(s, c, k) ==
    IF k > Len(s) THEN 0
    ELSE IF s[k] = c THEN k
    ELSE IndexFrom(s, c, k + 1)

IndexOf(s, c) == IndexFrom(s, c, 1)

\* s.split(c): the pieces of s between the occurrences of c.
RECURSIVE Split(_, _)
Split(s, c) ==
    LET k == IndexOf(s, c)
    IN  IF k = 0 THEN <<s>>
        ELSE <<SubSeq(s, 1, k - 1)>> \o Split(SubSeq(s, k + 1, Len(s)), c)

\* xs.map(p => p.trim())
RECURSIVE MapTrim(_)
MapTrim(xs) ==
    IF xs = <<>> THEN <<>> ELSE <<Trim(Head(xs))>> \o MapTrim(Tail(xs))

\* xs.filter(p => p): the non-empty strings of xs, in order.
RECURSIVE FilterNonEmpty(_)
FilterNonEmpty(xs) ==
    IF xs = <<>> THEN <<>>
    ELSE IF Head(xs) = <<>> THEN FilterNonEmpty(Tail(xs))
    ELSE <<Head(xs)>> \o FilterNonEmpty(Tail(xs))

\* The result of s.match(re): whether it matched, and its two groups
\* (defined says whether the second group took part in the match).
NoMatch == [matched |-> FALSE, g1 |-> <<>>, g2 |-> <<>>, defined |-> FALSE]

\* s.match(/^([^:]+):(.+)$/): one or more characters other than ':', the
\* first ':', one or more characters.
NameColonRestMatch(s) ==
    LET k == IndexOf(s, ":")
    IN  IF k >= 2 /\ k < Len(s)
        THEN [matched |-> TRUE, g1 |-> SubSeq(s, 1, k - 1),
              g2 |-> SubSeq(s, k + 1, Len(s)), defined |-> TRUE]
        ELSE NoMatch

\* The character class with the digits added: [a-zA-Z0-9-_].
Mut_OptionNameChars_WithDigits ==
    { "a", "b", "c", "d", "e", "f", "g", "h", "i", "j", "k", "l", "m",
      "n", "o", "p", "q", "r", "s", "t", "u", "v", "w", "x", "y", "z",
      "A", "B", "C", "D", "E", "F", "G", "H", "I", "J", "K", "L", "M",
      "N", "O", "P", "Q", "R", "S", "T", "U", "V", "W", "X", "Y", "Z",
      "0", "1", "2", "3", "4", "5", "6", "7", "8", "9", "-", "_" }

\* The character class [a-zA-Z-_] of the option pattern.
OptionNameChars ==
    { "a", "b", "c", "d", "e", "f", "g", "h", "i", "j", "k", "l", "m",
      "n", "o", "p", "q", "r", "s", "t", "u", "v", "w", "x", "y", "z",
      "A", "B", "C", "D", "E", "F", "G", "H", "I", "J", "K", "L", "M",
      "N", "O", "P", "Q", "R", "S", "T", "U", "V", "W", "X", "Y", "Z",
      "-", "_" }

\* Length of the longest prefix of s made of option-name characters.
RECURSIVE NameRunLen(_)
NameRunLen(s) ==
    IF s # <<>> /\ Head(s) \in OptionNameChars
    THEN 1 + NameRunLen(Tail(s))
    ELSE 0

\* s.match(/^@([a-zA-Z-_]+)(?:=(.+))?$/) for an s that starts with '@'.
\* '=' is no name character, so the name is the longest run after the '@';
\* what follows is nothing, or '=' and at least one character.
OptionMatch(s) ==
    LET n    == NameRunLen(Tail(s))
        rest == SubSeq(s, n + 2, Len(s))
    IN  IF n = 0 THEN NoMatch
        ELSE IF rest = <<>>
        THEN [matched |-> TRUE, g1 |-> SubSeq(s, 2, n + 1), g2 |-> <<>>,
              defined |-> FALSE]
        ELSE IF Head(rest) = "=" /\ Len(rest) >= 2
        THEN [matched |-> TRUE, g1 |-> SubSeq(s, 2, n + 1), g2 |-> Tail(rest),
              defined |-> TRUE]
        ELSE NoMatch

-----------------------------------------------------------------------------
(* Diagnostics.                                                            *)

\* new vscode.Diagnostic(new vscode.Range(i, 0, i, line.length), message,
\* severity).  A message is its fixed text and the strings spliced into it.
Mut_Diagnostic_OneBased(i, line, text, args, severity) ==
    [line |-> i + 1, endChar |-> Len(line), message |-> text, args |-> args,
     severity |-> severity]

Diagnostic(i, line, text, args, severity) ==
    [line |-> i, endChar |-> Len(line), message |-> text, args |-> args,
     severity |-> severity]

MsgEmptyContextName == "Empty context name"
MsgDuplicate == "Duplicate context name: ${contextName}"
MsgParentNotFound == "Parent context '${parent}' not found. Contexts can only inherit from previously defined contexts or 'default'."
MsgRedefineDefault == "Cannot redefine the 'default' context"
MsgFilterNameEmpty == "Filter name cannot be empty"
MsgInvalidRegex == "Invalid regex pattern: ${e.message}"
MsgConsiderCSV == "Consider using CSV format: @filter=\"${filterName}\",\"${regexPattern}\",\"*.py\""
MsgInvalidFilter == "Invalid filter syntax. Use: @filter=\"name\",\"regex\" or @filter=\"name\",\"regex\",\"filepattern\""
MsgInvalidOption == "Invalid option syntax"
MsgBooleanOption == "Option '${optionName}' must be 'true' or 'false'"
MsgListPatterns == "Option 'list-patterns' must be 'none', 'ignored', or 'contexts'"
MsgEmptyPattern == "Empty pattern"
MsgInvalidSyntax == "Invalid syntax. Expected comment (#), LLM instruction (##), context ([name] or [name:parent]), option (@option=value), or pattern (+/-)"

\* diagnosticItems.push(d) on the scan state st.
Push(st, d) == [st EXCEPT !.diagnosticItems = Append(@, d)]


-----------------------------------------------------------------------------
(* Context headers.                                                        *)

\* RegisterContext without definedContexts.add(contextName).
Mut_RegisterContext_NamesOnly(st, contextName) ==
    [st EXCEPT !.contextNames = @ \cup {contextName}]

\* contextNames.add(contextName); definedContexts.add(contextName)
RegisterContext(st, contextName) ==
    [st EXCEPT !.contextNames = @ \cup {contextName},
               !.definedContexts = @ \cup {contextName}]

\* for (const parent of parents) if (!definedContexts.has(parent)) push(...)
RECURSIVE ParentDiagnostics(_, _, _, _)
ParentDiagnostics(parents, definedContexts, i, line) ==
    IF parents = <<>> THEN <<>>
    ELSE (IF Head(parents) \notin definedContexts
          THEN <<Diagnostic(i, line, MsgParentNotFound, <<Head(parents)>>, "Error")>>
          ELSE <<>>)
         \o ParentDiagnostics(Tail(parents), definedContexts, i, line)

\* parentsList.split(",").map((p) => p.trim()).filter((p) => p)
ParentsOf(parentsList) == FilterNonEmpty(MapTrim(Split(parentsList, ",")))

\* RedefineDefaultCheck without the check.
Mut_RedefineDefaultCheck_Skipped(st, contextName, i, line) == st

\* if (contextName === "default") push("Cannot redefine the 'default' context")
RedefineDefaultCheck(st, contextName, i, line) ==
    IF contextName = S_default
    THEN Push(st, Diagnostic(i, line, MsgRedefineDefault, <<>>, "Error"))
    ELSE st

\* The branch of a header that matches name:parents.  The name is registered
\* before the parents are looked up in definedContexts.
Mut_InheritanceHeader_RedefineFirst(st, i, line, inheritanceMatch) ==
    LET contextName == Trim(inheritanceMatch.g1)
        parentsList == inheritanceMatch.g2
    IN  IF contextName = <<>>
        THEN Push(st, Diagnostic(i, line, MsgEmptyContextName, <<>>, "Error"))
        ELSE IF contextName \in st.contextNames
        THEN Push(st, Diagnostic(i, line, MsgDuplicate, <<contextName>>, "Error"))
        ELSE LET st1 == RegisterContext(st, contextName)
                 st2 == RedefineDefaultCheck(st1, contextName, i, line)
                 found == ParentDiagnostics(ParentsOf(parentsList),
                                            st1.definedContexts, i, line)
             IN  [st2 EXCEPT !.diagnosticItems = @ \o found]

Mut_InheritanceHeader_DuplicateChecksParents(st, i, line, inheritanceMatch) ==
    LET contextName == Trim(inheritanceMatch.g1)
        parentsList == inheritanceMatch.g2
        found == ParentDiagnostics(ParentsOf(parentsList),
                                   st.definedContexts \cup {contextName}, i, line)
    IN  IF contextName = <<>>
        THEN Push(st, Diagnostic(i, line, MsgEmptyContextName, <<>>, "Error"))
        ELSE IF contextName \in st.contextNames
        THEN [st EXCEPT !.diagnosticItems =
                 Append(@, Diagnostic(i, line, MsgDuplicate, <<contextName>>, "Error"))
                 \o found]
        ELSE LET st1 == RegisterContext(st, contextName)
                 st2 == [st1 EXCEPT !.diagnosticItems = @ \o found]
             IN  RedefineDefaultCheck(st2, contextName, i, line)

Mut_InheritanceHeader_RegistersOnlyClean(st, i, line, inheritanceMatch) ==
    LET contextName == Trim(inheritanceMatch.g1)
        parentsList == inheritanceMatch.g2
    IN  IF contextName = <<>>
        THEN Push(st, Diagnostic(i, line, MsgEmptyContextName, <<>>, "Error"))
        ELSE IF contextName \in st.contextNames
        THEN Push(st, Diagnostic(i, line, MsgDuplicate, <<contextName>>, "Error"))
        ELSE LET found == ParentDiagnostics(ParentsOf(parentsList),
                                            st.definedContexts \cup {contextName},
                                            i, line)
                 st1 == IF found = <<>> THEN RegisterContext(st, contextName) ELSE st
                 st2 == [st1 EXCEPT !.diagnosticItems = @ \o found]
             IN  RedefineDefaultCheck(st2, contextName, i, line)

InheritanceHeader(st, i, line, inheritanceMatch) ==
    LET contextName == Trim(inheritanceMatch.g1)
        parentsList == inheritanceMatch.g2
    IN  IF contextName = <<>>
        THEN Push(st, Diagnostic(i, line, MsgEmptyContextName, <<>>, "Error"))
        ELSE IF contextName \in st.contextNames
        THEN Push(st, Diagnostic(i, line, MsgDuplicate, <<contextName>>, "Error"))
        ELSE LET st1 == RegisterContext(st, contextName)
                 found == ParentDiagnostics(ParentsOf(parentsList),
                                            st1.definedContexts, i, line)
                 st2 == [st1 EXCEPT !.diagnosticItems = @ \o found]
             IN  RedefineDefaultCheck(st2, contextName, i, line)

\* PlainHeader without the contextNames.has(contextName) branch.
Mut_PlainHeader_NoDuplicateCheck(st, i, line, contextContent) ==
    IF contextContent = <<>>
    THEN Push(st, Diagnostic(i, line, MsgEmptyContextName, <<>>, "Error"))
    ELSE RedefineDefaultCheck(RegisterContext(st, contextContent),
                              contextContent, i, line)

\* The branch of a header without inheritance: the name is the whole content
\* of the brackets, untrimmed.
PlainHeader(st, i, line, contextContent) ==
    LET contextName == contextContent
    IN  IF contextName = <<>>
        THEN Push(st, Diagnostic(i, line, MsgEmptyContextName, <<>>, "Error"))
        ELSE IF contextName \in st.contextNames
        THEN Push(st, Diagnostic(i, line, MsgDuplicate, <<contextName>>, "Error"))
        ELSE RedefineDefaultCheck(RegisterContext(st, contextName),
                                  contextName, i, line)

\* A trimmed line that starts with '[' and ends with ']'.
ContextHeader(st, i, line, trimmedLine) ==
    LET contextContent == SubSeq(trimmedLine, 2, Len(trimmedLine) - 1)
        inheritanceMatch == NameColonRestMatch(contextContent)
    IN  IF inheritanceMatch.matched
        THEN InheritanceHeader(st, i, line, inheritanceMatch)
        ELSE PlainHeader(st, i, line, contextContent)

-----------------------------------------------------------------------------
(* Options.                                                                *)

\* OptionValueDiagnostics with a warning for a name that is no known option,
\* as an earlier revision of the validator gave.
Mut_OptionValueDiagnostics_UnknownWarns(optionName, hasValue, optionValue, i, line) ==
    IF optionName \notin booleanOptions \cup {S_list_patterns}
    THEN <<Diagnostic(i, line, "Unknown option: ${optionName}", <<optionName>>, "Warning")>>
    ELSE IF hasValue
            /\ \/ optionName \in booleanOptions /\ optionValue \notin {S_true, S_false}
               \/ optionName = S_list_patterns /\ optionValue \notin listPatternsValues
    THEN <<Diagnostic(i, line,
                      IF optionName = S_list_patterns THEN MsgListPatterns ELSE MsgBooleanOption,
                      IF optionName = S_list_patterns THEN <<>> ELSE <<optionName>>,
                      "Warning")>>
    ELSE <<>>

\* OptionValueDiagnostics without the test that a value is present.
Mut_OptionValueDiagnostics_NoValueTest(optionName, hasValue, optionValue, i, line) ==
    (IF optionName \in booleanOptions /\ optionValue \notin {S_true, S_false}
     THEN <<Diagnostic(i, line, MsgBooleanOption, <<optionName>>, "Warning")>>
     ELSE <<>>)
    \o
    (IF optionName = S_list_patterns /\ optionValue \notin listPatternsValues
     THEN <<Diagnostic(i, line, MsgListPatterns, <<>>, "Warning")>>
     ELSE <<>>)

\* The two value checks of a line that matches the option pattern.  A value
\* that took part in the match is non-empty, hence truthy.
Mut_OptionValueDiagnostics_AsErrors(optionName, hasValue, optionValue, i, line) ==
    (IF optionName \in booleanOptions /\ hasValue
        /\ optionValue \notin {S_true, S_false}
     THEN <<Diagnostic(i, line, MsgBooleanOption, <<optionName>>, "Error")>>
     ELSE <<>>)
    \o
    (IF optionName = S_list_patterns /\ hasValue
        /\ optionValue \notin listPatternsValues
     THEN <<Diagnostic(i, line, MsgListPatterns, <<>>, "Error")>>
     ELSE <<>>)

OptionValueDiagnostics(optionName, hasValue, optionValue, i, line) ==
    (IF optionName \in booleanOptions /\ hasValue
        /\ optionValue \notin {S_true, S_false}
     THEN <<Diagnostic(i, line, MsgBooleanOption, <<optionName>>, "Warning")>>
     ELSE <<>>)
    \o
    (IF optionName = S_list_patterns /\ hasValue
        /\ optionValue \notin listPatternsValues
     THEN <<Diagnostic(i, line, MsgListPatterns, <<>>, "Warning")>>
     ELSE <<>>)

\* A trimmed line that starts with '@' and not with '@filter='.
OptionLine(st, i, line, trimmedLine) ==
    LET optionMatch == OptionMatch(trimmedLine)
    IN  IF ~optionMatch.matched
        THEN Push(st, Diagnostic(i, line, MsgInvalidOption, <<>>, "Error"))
        ELSE [st EXCEPT !.diagnosticItems =
                 @ \o OptionValueDiagnostics(optionMatch.g1, optionMatch.defined,
                                             optionMatch.g2, i, line)]

-----------------------------------------------------------------------------
(* Patterns.                                                               *)

\* A trimmed line that starts with '+' or '-'.
Mut_PatternLine_NoCheck(st, i, line, trimmedLine) == st

PatternLine(st, i, line, trimmedLine) ==
    LET pattern == Trim(Tail(trimmedLine))
    IN  IF pattern = <<>>
        THEN Push(st, Diagnostic(i, line, MsgEmptyPattern, <<>>, "Error"))
        ELSE st


-----------------------------------------------------------------------------
(* Filters.                                                                *)

\* The outcome of a parse that throws, and of a regex that does not compile.
CsvError == [ok |-> FALSE, row |-> <<>>]

\* parse(trimmed, {quote: '"', delimiter: ",", escape: "\\"}) of csv-parse on
\* a text of one line, without relaxed quotes and without trimming:
\*   - a quote opens a quoted field only at the start of a field, and is an
\*     error after other characters of the field;
\*   - inside quotes, the escape character takes the next character, whatever
\*     it is, literally (an escape that ends the text is an ordinary one);
\*   - a quote inside quotes closes the field if a delimiter or the end of
\*     the text follows, and is an error otherwise;
\*   - the text must not end inside quotes.
\* fields are the finished fields, field the current one, quoting whether the
\* scan is inside quotes.
RECURSIVE CsvScan(_, _, _, _, _)
CsvScan(s, pos, fields, field, quoting) ==
    IF pos > Len(s)
    THEN IF quoting THEN CsvError
         ELSE [ok |-> TRUE, row |-> Append(fields, field)]
    ELSE LET chr == s[pos]
         IN  IF quoting /\ chr = "\\" /\ pos < Len(s)
             THEN CsvScan(s, pos + 2, fields, Append(field, s[pos + 1]), TRUE)
             ELSE IF chr = "\""
             THEN IF quoting
                  THEN IF pos = Len(s) \/ s[pos + 1] = ","
                       THEN CsvScan(s, pos + 1, fields, field, FALSE)
                       ELSE CsvError
                  ELSE IF field # <<>>
                       THEN CsvError
                       ELSE CsvScan(s, pos + 1, fields, field, TRUE)
             ELSE IF ~quoting /\ chr = ","
             THEN CsvScan(s, pos + 1, Append(fields, field), <<>>, FALSE)
             ELSE CsvScan(s, pos + 1, fields, Append(field, chr), quoting)

CsvParse(s) == CsvScan(s, 1, <<>>, <<>>, FALSE)

\* parseFilterCSV(filterContent): the row, or null (ok = FALSE).  A text of
\* one line gives one record.
ParseFilterCSV(filterContent) ==
    LET trimmed == Trim(filterContent)
    IN  IF ~StartsWith(trimmed, <<"\"">>) \/ ~EndsWith(trimmed, <<"\"">>)
        THEN CsvError
        ELSE LET records == CsvParse(trimmed)
             IN  IF ~records.ok THEN CsvError
                 ELSE IF Len(records.row) < 2 \/ Len(records.row) > 3
                 THEN CsvError
                 ELSE IF \E k \in 1..Len(records.row) : Trim(records.row[k]) = <<>>
                 THEN CsvError
                 ELSE records

\* regexPattern.replace(/\\\\/g, "\\"): every pair of backslashes, taken left
\* to right, becomes one backslash.
RECURSIVE UnescapeBackslashes(_)
UnescapeBackslashes(s) ==
    IF s = <<>> THEN <<>>
    ELSE IF Len(s) >= 2 /\ s[1] = "\\" /\ s[2] = "\\"
    THEN <<"\\">> \o UnescapeBackslashes(SubSeq(s, 3, Len(s)))
    ELSE <<Head(s)>> \o UnescapeBackslashes(Tail(s))

\* new RegExp(s): the message of the SyntaxError it throws, "" when the
\* pattern compiles.  The part of the pattern grammar the model's filters
\* use: escapes, groups, character classes, the quantifiers * + ?, and the
\* assertions ^ $ and alternation, after which nothing can be repeated.
\* prev is "atom" after something a quantifier can follow, "quant" after a
\* quantifier (a lazy '?' may follow), "none" otherwise.
RECURSIVE RegExpScan(_, _, _, _, _)
RegExpScan(s, pos, depth, inClass, prev) ==
    IF pos > Len(s)
    THEN IF inClass THEN "Unterminated character class"
         ELSE IF depth > 0 THEN "Unterminated group"
         ELSE ""
    ELSE LET chr == s[pos]
         IN  IF chr = "\\"
             THEN IF pos = Len(s) THEN "\\ at end of pattern"
                  ELSE RegExpScan(s, pos + 2, depth, inClass,
                                  IF inClass THEN prev ELSE "atom")
             ELSE IF inClass
             THEN RegExpScan(s, pos + 1, depth, chr # "]",
                             IF chr = "]" THEN "atom" ELSE prev)
             ELSE IF chr = "["
             THEN RegExpScan(s, pos + 1, depth, TRUE, prev)
             ELSE IF chr = "("
             THEN IF pos < Len(s) /\ s[pos + 1] = "?"
                  THEN IF pos + 1 < Len(s) /\ s[pos + 2] \in {":", "=", "!"}
                       THEN RegExpScan(s, pos + 3, depth + 1, FALSE, "none")
                       ELSE "Invalid group"
                  ELSE RegExpScan(s, pos + 1, depth + 1, FALSE, "none")
             ELSE IF chr = ")"
             THEN IF depth = 0 THEN "Unmatched ')'"
                  ELSE RegExpScan(s, pos + 1, depth - 1, FALSE, "atom")
             ELSE IF chr \in {"*", "+", "?"}
             THEN IF prev = "atom"
                  THEN RegExpScan(s, pos + 1, depth, FALSE, "quant")
                  ELSE IF prev = "quant" /\ chr = "?"
                  THEN RegExpScan(s, pos + 1, depth, FALSE, "none")
                  ELSE "Nothing to repeat"
             ELSE IF chr \in {"^", "$", "|"}
             THEN RegExpScan(s, pos + 1, depth, FALSE, "none")
             ELSE RegExpScan(s, pos + 1, depth, FALSE, "atom")

RegExpError(s) == RegExpScan(s, 1, 0, FALSE, "none")

\* if (!filterName.trim()) push("Filter name cannot be empty")
FilterNameDiagnostics(filterName, i, line) ==
    IF Trim(filterName) = <<>>
    THEN <<Diagnostic(i, line, MsgFilterNameEmpty, <<>>, "Error")>>
    ELSE <<>>

\* try { new RegExp(source) } catch (e) { push("Invalid regex pattern: ...") }
RegexDiagnostics(source, i, line) ==
    IF RegExpError(source) # ""
    THEN <<Diagnostic(i, line, MsgInvalidRegex, <<RegExpError(source)>>, "Error")>>
    ELSE <<>>

\* The branch of a filter whose content parseFilterCSV accepts.
Mut_CsvFilter_NoUnescape(st, i, line, csvValues) ==
    LET filterName == csvValues[1]
        regexPattern == csvValues[2]
    IN  [st EXCEPT !.diagnosticItems =
            @ \o FilterNameDiagnostics(filterName, i, line)
              \o RegexDiagnostics(regexPattern, i, line)]

CsvFilter(st, i, line, csvValues) ==
    LET filterName == csvValues[1]
        regexPattern == csvValues[2]
    IN  [st EXCEPT !.diagnosticItems =
            @ \o FilterNameDiagnostics(filterName, i, line)
              \o RegexDiagnostics(UnescapeBackslashes(regexPattern), i, line)]

\* The branch of a filter whose content parseFilterCSV rejects.
Mut_LegacyFilter_Unescapes(st, i, line, filterContent) ==
    LET legacyMatch == NameColonRestMatch(filterContent)
        filterName == legacyMatch.g1
        regexPattern == legacyMatch.g2
    IN  IF legacyMatch.matched
        THEN [st EXCEPT !.diagnosticItems =
                 @ \o FilterNameDiagnostics(filterName, i, line)
                   \o RegexDiagnostics(UnescapeBackslashes(regexPattern), i, line)
                   \o <<Diagnostic(i, line, MsgConsiderCSV,
                                   <<filterName, regexPattern>>, "Information")>>]
        ELSE Push(st, Diagnostic(i, line, MsgInvalidFilter, <<>>, "Error"))

Mut_LegacyFilter_HintOnlyWhenClean(st, i, line, filterContent) ==
    LET legacyMatch == NameColonRestMatch(filterContent)
        filterName == legacyMatch.g1
        regexPattern == legacyMatch.g2
        found == FilterNameDiagnostics(filterName, i, line)
                 \o RegexDiagnostics(regexPattern, i, line)
    IN  IF legacyMatch.matched
        THEN [st EXCEPT !.diagnosticItems =
                 @ \o found
                   \o (IF found = <<>>
                       THEN <<Diagnostic(i, line, MsgConsiderCSV,
                                         <<filterName, regexPattern>>, "Information")>>
                       ELSE <<>>)]
        ELSE Push(st, Diagnostic(i, line, MsgInvalidFilter, <<>>, "Error"))

LegacyFilter(st, i, line, filterContent) ==
    LET legacyMatch == NameColonRestMatch(filterContent)
        filterName == legacyMatch.g1
        regexPattern == legacyMatch.g2
    IN  IF legacyMatch.matched
        THEN [st EXCEPT !.diagnosticItems =
                 @ \o FilterNameDiagnostics(filterName, i, line)
                   \o RegexDiagnostics(regexPattern, i, line)
                   \o <<Diagnostic(i, line, MsgConsiderCSV,
                                   <<filterName, regexPattern>>, "Information")>>]
        ELSE Push(st, Diagnostic(i, line, MsgInvalidFilter, <<>>, "Error"))

\* A trimmed line that starts with '@filter='.
Mut_FilterLine_LegacyFirst(st, i, line, trimmedLine) ==
    LET filterContent == SubSeq(trimmedLine, Len(S_filterPrefix) + 1, Len(trimmedLine))
        csvValues == ParseFilterCSV(filterContent)
    IN  IF NameColonRestMatch(filterContent).matched \/ ~csvValues.ok
        THEN LegacyFilter(st, i, line, filterContent)
        ELSE CsvFilter(st, i, line, csvValues.row)

FilterLine(st, i, line, trimmedLine) ==
    LET filterContent == SubSeq(trimmedLine, Len(S_filterPrefix) + 1, Len(trimmedLine))
        csvValues == ParseFilterCSV(filterContent)
    IN  IF csvValues.ok
        THEN CsvFilter(st, i, line, csvValues.row)
        ELSE LegacyFilter(st, i, line, filterContent)

-----------------------------------------------------------------------------
(* The scan.                                                               *)

\* The state of the scan before the first line: no context name, and
\* 'default' available for inheritance.
ScanInit ==
    [contextNames |-> {}, definedContexts |-> {S_default},
     diagnosticItems |-> <<>>]

\* The body of the loop for line i (0-based) of the document.
LoopBody(st, i, line) ==
    LET trimmedLine == Trim(line)
    IN  IF trimmedLine = <<>> THEN st
        ELSE IF StartsWith(trimmedLine, <<"#">>) THEN st
        ELSE IF StartsWith(trimmedLine, <<"[">>) /\ EndsWith(trimmedLine, <<"]">>)
        THEN ContextHeader(st, i, line, trimmedLine)
        ELSE IF StartsWith(trimmedLine, S_filterPrefix)
        THEN FilterLine(st, i, line, trimmedLine)
        ELSE IF StartsWith(trimmedLine, <<"@">>)
        THEN OptionLine(st, i, line, trimmedLine)
        ELSE IF StartsWith(trimmedLine, <<"+">>) \/ StartsWith(trimmedLine, <<"-">>)
        THEN PatternLine(st, i, line, trimmedLine)
        ELSE Push(st, Diagnostic(i, line, MsgInvalidSyntax, <<>>, "Error"))

\* The state of the scan after the first n lines of lines.
RECURSIVE Mut_ScanPrefix_StopsAtFirst(_, _)
Mut_ScanPrefix_StopsAtFirst(lines, n) ==
    IF n = 0 THEN ScanInit
    ELSE LET st == Mut_ScanPrefix_StopsAtFirst(lines, n - 1)
         IN  IF st.diagnosticItems # <<>> THEN st
             ELSE LoopBody(st, n - 1, lines[n])

RECURSIVE ScanPrefix(_, _)
ScanPrefix(lines, n) ==
    IF n = 0 THEN ScanInit
    ELSE LoopBody(ScanPrefix(lines, n - 1), n - 1, lines[n])

\* The diagnosticItems validateBlobifyFile has built when its loop ends.
ValidateBlobifyFile(lines) == ScanPrefix(lines, Len(lines)).diagnosticItems


-----------------------------------------------------------------------------
(* The formatter.                                                          *)

\* vscode.TextEdit.replace(new vscode.Range(i, 0, i, line.length), newText)
TextEdit(i, line, newText) ==
    [line |-> i, endChar |-> Len(line), newText |-> newText]

\* The edit the loop of the formatter pushes for line i, if any: none for a
\* line that is blank once trimmed, none for a line that is its trimmed
\* text.
Mut_LineEdits_BlankLinesToo(i, line) ==
    IF line # Trim(line) THEN <<TextEdit(i, line, Trim(line))>> ELSE <<>>

LineEdits(i, line) ==
    LET trimmedLine == Trim(line)
        formattedLine == trimmedLine
    IN  IF trimmedLine = <<>> THEN <<>>
        ELSE IF line # formattedLine
        THEN <<TextEdit(i, line, formattedLine)>>
        ELSE <<>>

\* The edits pushed for the first n lines.
RECURSIVE FormattingEdits(_, _)
FormattingEdits(lines, n) ==
    IF n = 0 THEN <<>>
    ELSE FormattingEdits(lines, n - 1) \o LineEdits(n - 1, lines[n])

\* BlobifyFormatter.provideDocumentFormattingEdits(document, options)
ProvideDocumentFormattingEdits(lines) == FormattingEdits(lines, Len(lines))

\* The editor applies the edits: each replaces the columns 0 to endChar of
\* its line by its text.
RECURSIVE ApplyEdits(_, _)
ApplyEdits(lines, textEdits) ==
    IF textEdits = <<>> THEN lines
    ELSE LET e == Head(textEdits)
             old == lines[e.line + 1]
         IN  ApplyEdits([lines EXCEPT ![e.line + 1] =
                             e.newText \o SubSeq(old, e.endChar + 1, Len(old))],
                        Tail(textEdits))

-----------------------------------------------------------------------------
(* The inheritance completion provider (src/src/contextCompletion.ts).     *)

\* The characters of the model's documents in the order of their UTF-16
\* code units, which is the order Array.prototype.sort compares strings by.
CodeUnits ==
    << "\t", " ", "\"", "#", "(", ")", "*", "+", ",", "-", ".",
       "0", "1", "2", "3", "4", "5", "6", "7", "8", "9", ":", "=", "@",
       "A", "B", "C", "D", "E", "F", "G", "H", "I", "J", "K", "L", "M",
       "N", "O", "P", "Q", "R", "S", "T", "U", "V", "W", "X", "Y", "Z",
       "[", "\\", "]", "^", "_",
       "a", "b", "c", "d", "e", "f", "g", "h", "i", "j", "k", "l", "m",
       "n", "o", "p", "q", "r", "s", "t", "u", "v", "w", "x", "y", "z" >>

CodeUnit(c) == CHOOSE k \in 1..Len(CodeUnits) : CodeUnits[k] = c

\* a < b as sort() without a comparator has it.
RECURSIVE StringLess(_, _)
StringLess(a, b) ==
    IF b = <<>> THEN FALSE
    ELSE IF a = <<>> THEN TRUE
    ELSE IF Head(a) = Head(b) THEN StringLess(Tail(a), Tail(b))
    ELSE CodeUnit(Head(a)) < CodeUnit(Head(b))

RECURSIVE InsertSorted(_, _)
InsertSorted(xs, x) ==
    IF xs = <<>> THEN <<x>>
    ELSE IF StringLess(x, Head(xs)) THEN <<x>> \o xs
    ELSE <<Head(xs)>> \o InsertSorted(Tail(xs), x)

\* xs.sort()
RECURSIVE SortStrings(_)
SortStrings(xs) ==
    IF xs = <<>> THEN <<>>
    ELSE InsertSorted(SortStrings(Tail(xs)), Head(xs))

\* [...new Set(xs)]: the first occurrence of each string, in order.
RECURSIVE Distinct(_)
Distinct(xs) ==
    IF xs = <<>> THEN <<>>
    ELSE LET front == Distinct(SubSeq(xs, 1, Len(xs) - 1))
             last == xs[Len(xs)]
         IN  IF \E k \in 1..Len(front) : front[k] = last
             THEN front
             ELSE Append(front, last)

\* lineText.match(/^\s*\[([^\]]+)\]/): a '[' after leading whitespace, at
\* least one character that is no ']', and a ']'.
ContextPatternMatch(lineText) ==
    LET t == TrimStart(lineText)
        close == IF t = <<>> THEN 0 ELSE IndexOf(Tail(t), "]")
    IN  IF t # <<>> /\ Head(t) = "[" /\ close >= 2
        THEN [matched |-> TRUE, g1 |-> SubSeq(Tail(t), 1, close - 1),
              g2 |-> <<>>, defined |-> FALSE]
        ELSE NoMatch

\* The names the loop of getAvailableParentContexts pushes for the line.
LineContexts(line) ==
    LET lineText == Trim(line)
        match == ContextPatternMatch(lineText)
        contextHeader == Trim(match.g1)
        contextName == Trim(Head(Split(contextHeader, ":")))
    IN  IF StartsWith(lineText, <<"#">>) \/ Len(lineText) = 0 THEN <<>>
        ELSE IF match.matched /\ contextName # <<>> /\ contextName # S_default
        THEN <<contextName>>
        ELSE <<>>

\* contexts after the lines 0 .. n - 1.
RECURSIVE ContextsAbove(_, _)
ContextsAbove(lines, n) ==
    IF n = 0 THEN <<>>
    ELSE ContextsAbove(lines, n - 1) \o LineContexts(lines[n])

\* getAvailableParentContexts(document, currentLine)
GetAvailableParentContexts(lines, currentLine) ==
    SortStrings(Distinct(ContextsAbove(lines, currentLine)))

\* isInContextHeader(lineText, cursorPosition)
IsInContextHeader(lineText, cursorPosition) ==
    LET trimmed == Trim(lineText)
        openBracket == IndexOf(lineText, "[") - 1
    IN  IF ~StartsWith(trimmed, <<"[">>) THEN FALSE
        ELSE cursorPosition > openBracket

\* The ways a completion is asked for: by typing ':' or ',', the trigger
\* characters the provider is registered with, or by invoking it.
Triggers == {":", ",", "invoke"}

\* shouldTriggerInheritanceCompletion(lineText, cursorPosition, context)
ShouldTriggerInheritanceCompletion(lineText, cursorPosition, trigger) ==
    LET triggerByColon == trigger = ":"
        hasColonBeforeCursor ==
            IndexOf(SubSeq(lineText, 1, cursorPosition), ":") # 0
        openBracket == IndexOf(lineText, "[") - 1
        contextPart == SubSeq(lineText, openBracket + 2, cursorPosition)
        colonIndex == IndexOf(contextPart, ":") - 1
        afterColon == SubSeq(contextPart, colonIndex + 2, Len(contextPart))
    IN  IF ~triggerByColon /\ ~hasColonBeforeCursor THEN FALSE
        ELSE IF openBracket = -1 THEN FALSE
        ELSE IF colonIndex = -1 THEN triggerByColon
        ELSE IF Len(Trim(afterColon)) > 0
        THEN EndsWith(afterColon, <<",">>) \/ trigger = ","
        ELSE TRUE

\* provideCompletionItems(document, position, token, context): whether
\* getAvailableParentContexts was reached, its list, and what is returned,
\* undefined or one item per name of the list.
ProvideCompletionItems(lines, line, character, trigger) ==
    LET lineText == lines[line + 1]
        availableContexts == GetAvailableParentContexts(lines, line)
        undefined == [line |-> line, scanned |-> FALSE, available |-> <<>>,
                      returned |-> "undefined", items |-> <<>>]
    IN  IF ~IsInContextHeader(lineText, character) THEN undefined
        ELSE IF ~ShouldTriggerInheritanceCompletion(lineText, character, trigger)
        THEN undefined
        ELSE IF Len(availableContexts) = 0
        THEN [undefined EXCEPT !.scanned = TRUE]
        ELSE [line |-> line, scanned |-> TRUE, available |-> availableContexts,
              returned |-> "items", items |-> availableContexts]

-----------------------------------------------------------------------------
(* Documents.                                                              *)

MaxLines == 4       \* lines of a document of context headers
MaxOptLines == 2    \* lines of a document of options

\* The texts [name] and [name:parent,parent,...].
RECURSIVE JoinComma(_)
JoinComma(xs) ==
    IF xs = <<>> THEN <<>>
    ELSE IF Len(xs) = 1 THEN Head(xs)
    ELSE Head(xs) \o <<",">> \o JoinComma(Tail(xs))

HeaderText(name) == <<"[">> \o name \o <<"]">>
InheritText(name, parents) ==
    <<"[">> \o name \o <<":">> \o JoinComma(parents) \o <<"]">>

\* The texts @name and @name=value.
OptionText(name) == <<"@">> \o name
OptionValueText(name, value) == <<"@">> \o name \o <<"=">> \o value

N_a == <<"a">>
N_b == <<"b">>
N_c == <<"c">>

\* The document of the end-to-end scenario: [a], [b:a], [c:a,b], [b].
ScenarioDocument ==
    << HeaderText(N_a), InheritText(N_b, <<N_a>>),
       InheritText(N_c, <<N_a, N_b>>), HeaderText(N_b) >>

\* Lines of the documents of context headers: plain and inheriting headers,
\* a self-reference, references to 'default', 'default' as a name, an empty
\* name, a name padded inside the brackets, and a comment.
CtxLines ==
    { HeaderText(N_a), HeaderText(N_b), HeaderText(S_default),
      InheritText(N_a, <<N_a>>), InheritText(N_b, <<N_a>>),
      InheritText(N_a, <<N_b>>), InheritText(N_c, <<N_a, N_b>>),
      InheritText(S_default, <<N_b>>), InheritText(N_b, <<S_default>>),
      HeaderText(<<>>), HeaderText(<<" ", "a", " ">>),
      <<"#", "[", "c", "]">> }

S_maybe == <<"m", "a", "y", "b", "e">>
S_output_filename == <<"o", "u", "t", "p", "u", "t", "-", "f", "i", "l", "e", "n", "a", "m", "e">>
S_x_y == <<"x", "_", "y">>
S_Debug == <<"D", "e", "b", "u", "g">>
S_opt1 == <<"o", "p", "t", "1">>

\* Option names the validator has no rule for, and one with a digit.
UnknownOptionNames == { S_output_filename, S_x_y, S_Debug }
DigitOptionNames == { S_opt1 }

\* Non-empty option values.
OptionValues ==
    { S_true, S_false, S_maybe, S_none, S_ignored, S_contexts, <<" ">> \o S_true }

\* Lines of the documents of options.
OptLines ==
    { OptionText(n) : n \in booleanOptions }
    \cup { OptionValueText(n, v) : n \in booleanOptions, v \in {S_true, S_false, S_maybe} }
    \cup { OptionText(S_list_patterns) }
    \cup { OptionValueText(S_list_patterns, v) : v \in listPatternsValues \cup {S_maybe, S_true} }
    \cup { OptionText(n) : n \in UnknownOptionNames \cup DigitOptionNames }
    \cup { OptionValueText(n, v) : n \in UnknownOptionNames \cup DigitOptionNames, v \in {S_true, S_maybe} }
    \cup { OptionValueText(S_debug, <<" ">> \o S_true),
           <<" ">> \o OptionValueText(S_debug, S_maybe) \o <<" ">>,
           OptionValueText(S_debug, <<>>),
           OptionValueText(<<>>, S_true),
           <<"@">>,
           <<"@", "d", "e", " ", "b", "u", "g">> }

\* Documents of filter lines.  Each content is what follows "@filter=".
MaxFilterLines == 2    \* lines of a document of filters

\* Contents that are CSV: quoted at both ends, one record of two or three
\* non-empty fields.
F_csv2 == <<"\"", "f", "\"", ",", "\"", "a", "\"">>  \* two quoted fields
F_csv3 == <<"\"", "f", "\"", ",", "\"", "a", "\"", ",", "\"", "*", "\"">>  \* three quoted fields
F_csvColon == <<"\"", "f", "\"", ",", "\"", "a", ":", "b", "\"">>  \* a colon inside a quoted field
F_csvColonBad == <<"\"", "f", ":", "g", "\"", ",", "\"", "(", "\"">>  \* a colon in the name, a regex that does not compile
F_csvBad == <<"\"", "f", "\"", ",", "\"", "(", "\"">>  \* a regex that does not compile
F_csvEsc4 == <<"\"", "f", "\"", ",", "\"", "\\", "\\", "\\", "\\", "(", "\"">>  \* four backslashes in the text: the field is \\( and the regex \(
F_csvEsc2 == <<"\"", "f", "\"", ",", "\"", "\\", "\\", "(", "\"">>  \* two backslashes in the text: the field is \(
F_csvEsc8 == <<"\"", "f", "\"", ",", "\"", "\\", "\\", "\\", "\\", "\\", "\\", "\\", "\\", "(", "\"">>  \* eight backslashes in the text: the field has four, the regex two
F_csvSpec == <<"\"", "f", "n", "\"", ",", "\"", "^", "\\", "\\", "\\", "\\", "s", "*", "d", "e", "f", "\\", "\\", "\\", "\\", "s", "+", "\"", ",", "\"", "*", ".", "p", "y", "\"">>  \* the filter of the specification

\* Contents that are no CSV and have the form name:regex.
F_legacy == <<"f", ":", "a">>  \* name:regex
F_legacyBad == <<"f", ":", "(", "u">>  \* a regex that does not compile
F_legacyEsc2 == <<"f", ":", "\\", "\\", "(">>  \* two backslashes: the regex is \\( as written
F_legacyEsc1 == <<"f", ":", "\\", "(">>  \* one backslash: the regex is \(
F_legacyBlank == <<" ", ":", "a">>  \* a blank name
F_legacyBlankBad == <<" ", ":", "(">>  \* a blank name, a regex that does not compile
F_legacyQuoted == <<"\"", "f", "\"", ":", "\"", "a", "\"">>  \* quoted at both ends, no CSV
F_legacyFour == <<"\"", "f", "\"", ",", "\"", "a", ":", "b", "\"", ",", "\"", "c", "\"", ",", "\"", "d", "\"">>  \* four fields, with a colon
F_legacySpec == <<"l", "e", "g", "a", "c", "y", "n", "a", "m", "e", ":", "^", "d", "e", "f", "\\", "s", "+">>  \* the legacy filter of the specification

\* Contents of neither form.
F_four == <<"\"", "f", "\"", ",", "\"", "a", "\"", ",", "\"", "b", "\"", ",", "\"", "c", "\"">>  \* four fields, no colon
F_emptyField == <<"\"", "f", "\"", ",", "\"", "\"">>  \* an empty field
F_oneField == <<"\"", "f", "\"">>  \* one field
F_bare == <<"f">>  \* no quotes, no colon
F_nothing == <<>>  \* nothing after the =
F_noName == <<":", "a">>  \* nothing before the colon

CsvContents == { F_csv2, F_csv3, F_csvColon, F_csvColonBad, F_csvBad, F_csvEsc4, F_csvEsc2, F_csvEsc8, F_csvSpec }
LegacyContents == { F_legacy, F_legacyBad, F_legacyEsc2, F_legacyEsc1, F_legacyBlank, F_legacyBlankBad, F_legacyQuoted, F_legacyFour, F_legacySpec }
NeitherContents == { F_four, F_emptyField, F_oneField, F_bare, F_nothing, F_noName }

\* The text @filter=content.
FilterText(content) == S_filterPrefix \o content

FilterLines ==
    { FilterText(c) : c \in CsvContents \cup LegacyContents \cup NeitherContents }

\* Documents of lines of every kind: headers, patterns with and without a
\* text after the sign, an option and a filter with findings, a line of no
\* form, a comment and a blank line.
MaxMixLines == 3    \* lines of a document of mixed lines

P_star_py == <<"*", ".", "p", "y">>

\* The text of a pattern line: the sign, then what follows it.
PatternText(sign, rest) == <<sign>> \o rest

SignOnlyLines ==
    { PatternText("+", <<>>), PatternText("-", <<>>),
      PatternText("+", <<" ">>), PatternText("-", <<"\t", " ">>) }

PatternLines ==
    { PatternText("+", P_star_py), PatternText("-", <<" ", "x">>),
      <<" ">> \o PatternText("+", N_a) }

MixLines ==
    SignOnlyLines \cup PatternLines
    \cup { HeaderText(N_a), InheritText(N_b, <<N_a>>), HeaderText(<<>>),
           <<"x">>, OptionValueText(S_debug, S_maybe), FilterText(F_legacyBad),
           <<"#", "c">>, <<>> }

\* Documents with a line for each kind of finding.
MaxKindLines == 2    \* lines of a document of findings

KindLines ==
    { HeaderText(<<>>), InheritText(<<" ">>, <<N_a>>),
      HeaderText(N_a), InheritText(N_b, <<N_a>>), HeaderText(S_default),
      PatternText("+", <<>>), <<"x">>,
      <<"@">>, OptionValueText(S_debug, <<>>),
      OptionValueText(S_debug, S_maybe),
      OptionValueText(S_list_patterns, S_maybe),
      FilterText(F_bare), FilterText(F_legacyBad), FilterText(F_csvBad),
      FilterText(F_legacyBlank) }

\* Documents of headers with one and with two parents, in the two orders
\* of declaration, with 'default' as a name and with an empty name.
MaxHdrLines == 3    \* lines of a document of headers with parents

HdrLines ==
    { HeaderText(N_a), HeaderText(N_b),
      InheritText(N_a, <<N_b>>), InheritText(N_b, <<N_a>>),
      InheritText(N_c, <<N_b, N_a>>),
      HeaderText(S_default), InheritText(S_default, <<N_b, N_a>>),
      HeaderText(<<>>) }

\* Documents for the formatter and the completion provider: headers plain,
\* padded inside the brackets and padded outside, 'default', a bracketed
\* name with text after it, a comment that looks like a header, and a line
\* of whitespace.
MaxEditorLines == 3    \* lines of a document in the editor

EditorLines ==
    { HeaderText(N_a),
      HeaderText(<<" ">> \o N_b \o <<" ">>),
      <<" ">> \o InheritText(N_b, <<N_a>>) \o <<" ">>,
      InheritText(N_c, <<N_a, N_b>>),
      HeaderText(S_default),
      HeaderText(N_c) \o <<" ", "x">>,
      <<"#">> \o HeaderText(N_c),
      <<" ", " ">> }

\* Documents of headers that spell one name with and without parents, with
\* and without spaces inside the brackets.
MaxNameLines == 3    \* lines of a document of spellings of a name

N_a_padded == <<" ">> \o N_a \o <<" ">>

NameLines ==
    { HeaderText(N_a), InheritText(N_a, <<S_default>>),
      HeaderText(N_a_padded), InheritText(N_a_padded, <<S_default>>),
      InheritText(N_b, <<N_a>>) }

\* The sequences of at most n elements of S.
SeqsUpTo(S, n) == UNION { [1..k -> S] : k \in 0..n }

-----------------------------------------------------------------------------
(* The extension.                                                          *)

\* The diagnostic collection holds nothing for the document until a
\* validation sets it.
NoDiagnostics == [set |-> FALSE, items |-> <<>>]

\* No call of validateBlobifyFile has been made.
NoCall == [handler |-> "none", uri |-> "none", locals |-> ScanInit]

Uris == {"A", "B"}

TextAt(uri) == IF uri = "A" THEN document ELSE otherDocument
LanguageAt(uri) == IF uri = "A" THEN languageId ELSE otherLanguageId

\* The DiagnosticCollection "blobify", by uri.
Collection == [A |-> diagnostics, B |-> otherDiagnostics]

\* provideCompletionItems has not been called.
NoCompletion ==
    [line |-> 0, scanned |-> FALSE, available |-> <<>>,
     returned |-> "nothing", items |-> <<>>]

\* The formatter has not been called.
NoEdits == [uri |-> "none", source |-> <<>>, items |-> <<>>]

\* Only the document "A" matters: it is a blobify document, no validation
\* has run, and the setting has its default.
OneDocument ==
    /\ diagnostics = NoDiagnostics
    /\ languageId = "blobify"
    /\ otherDocument = <<>>
    /\ otherDiagnostics = NoDiagnostics
    /\ otherLanguageId = "blobify"
    /\ validationEnabled = TRUE
    /\ lastCall = NoCall
    /\ completion = NoCompletion
    /\ edits = NoEdits

InitCtx ==
    /\ document \in SeqsUpTo(CtxLines, MaxLines)
    /\ OneDocument

InitOpt ==
    /\ document \in SeqsUpTo(OptLines, MaxOptLines)
    /\ OneDocument

InitFilter ==
    /\ document \in SeqsUpTo(FilterLines, MaxFilterLines)
    /\ OneDocument

InitMix ==
    /\ document \in SeqsUpTo(MixLines, MaxMixLines)
    /\ OneDocument

InitKind ==
    /\ document \in SeqsUpTo(KindLines, MaxKindLines)
    /\ OneDocument

InitHdr ==
    /\ document \in SeqsUpTo(HdrLines, MaxHdrLines)
    /\ OneDocument

\* The locals of a call of validateBlobifyFile on lines when its loop ends.
\* diagnosticItems, contextNames and definedContexts are created by the call
\* itself, so nothing of the locals a previous call ended with enters.
Mut_ValidateCall_KeepsItems(previous, lines) ==
    [ScanPrefix(lines, Len(lines)) EXCEPT
        !.diagnosticItems = previous.diagnosticItems \o @]

ValidateCall(previous, lines) == ScanPrefix(lines, Len(lines))

\* diagnostics.set(uri, diagnosticItems): the entry of uri is replaced.
Mut_DiagnosticsSet_Appends(collection, uri, diagnosticItems) ==
    [collection EXCEPT
        ![uri] = [set |-> TRUE, items |-> @.items \o diagnosticItems]]

Mut_DiagnosticsSet_EveryUri(collection, uri, diagnosticItems) ==
    [u \in DOMAIN collection |-> [set |-> TRUE, items |-> diagnosticItems]]

DiagnosticsSet(collection, uri, diagnosticItems) ==
    [collection EXCEPT ![uri] = [set |-> TRUE, items |-> diagnosticItems]]

\* validateBlobifyFile(document, diagnostics?) called by handler for the
\* document uri whose lines are lines: the scan, then, when the collection
\* was passed, diagnostics.set(document.uri, diagnosticItems).
ValidateBlobifyFileCall(handler, uri, lines, passed) ==
    LET locals == ValidateCall(lastCall.locals, lines)
        collection == IF passed
                      THEN DiagnosticsSet(Collection, uri, locals.diagnosticItems)
                      ELSE Collection
    IN  /\ lastCall' = [handler |-> handler, uri |-> uri, locals |-> locals]
        /\ diagnostics' = collection.A
        /\ otherDiagnostics' = collection.B

\* onDidSaveTextDocument for the document uri: when its language is blobify,
\* validateBlobifyFile(document, diagnostics).
Save(uri) ==
    /\ LanguageAt(uri) = "blobify"
    /\ ValidateBlobifyFileCall("save", uri, TextAt(uri), TRUE)
    /\ UNCHANGED <<document, otherDocument, languageId, otherLanguageId,
                   validationEnabled, completion, edits>>

\* onDidSaveTextDocument for the document "A".
ValidateOnSave == Save("A")

Next == ValidateOnSave

SpecCtx == InitCtx /\ [][Next]_vars
SpecOpt == InitOpt /\ [][Next]_vars
SpecFilter == InitFilter /\ [][Next]_vars
SpecMix == InitMix /\ [][Next]_vars
SpecKind == InitKind /\ [][Next]_vars
SpecHdr == InitHdr /\ [][Next]_vars

InitName ==
    /\ document \in SeqsUpTo(NameLines, MaxNameLines)
    /\ OneDocument

SpecName == InitName /\ [][Next]_vars

\* Two open documents, each of a few header lines, each a blobify document
\* or a document of another language.
HostDocs ==
    { <<>>,
      <<HeaderText(N_a)>>,
      <<HeaderText(N_a), HeaderText(N_a)>>,
      <<InheritText(N_b, <<N_a>>)>>,
      <<HeaderText(N_a), InheritText(N_b, <<N_a>>)>>,
      <<<<" ">> \o HeaderText(N_a), <<" ">>>> }

LanguageIds == {"blobify", "plaintext"}

InitHost ==
    /\ document \in HostDocs
    /\ otherDocument \in HostDocs
    /\ languageId \in LanguageIds
    /\ otherLanguageId \in LanguageIds
    /\ diagnostics = NoDiagnostics
    /\ otherDiagnostics = NoDiagnostics
    /\ validationEnabled = TRUE
    /\ lastCall = NoCall
    /\ completion = NoCompletion
    /\ edits = NoEdits

\* onDidChangeTextDocument for the document uri, whose text has become
\* text: when its language is blobify, validateBlobifyFile(e.document,
\* diagnostics).
Mut_Change_AnyLanguage(uri) ==
    \E text \in HostDocs \ {TextAt(uri)} :
        /\ document' = (IF uri = "A" THEN text ELSE document)
        /\ otherDocument' = (IF uri = "B" THEN text ELSE otherDocument)
        /\ ValidateBlobifyFileCall("change", uri, text, TRUE)
        /\ UNCHANGED <<languageId, otherLanguageId, validationEnabled,
                       completion, edits>>

Change(uri) ==
    \E text \in HostDocs \ {TextAt(uri)} :
        /\ document' = (IF uri = "A" THEN text ELSE document)
        /\ otherDocument' = (IF uri = "B" THEN text ELSE otherDocument)
        /\ IF LanguageAt(uri) = "blobify"
           THEN ValidateBlobifyFileCall("change", uri, text, TRUE)
           ELSE UNCHANGED <<diagnostics, otherDiagnostics, lastCall>>
        /\ UNCHANGED <<languageId, otherLanguageId, validationEnabled,
                       completion, edits>>

\* The command blobify.validate with the document uri in the active editor:
\* when its language is blobify, validateBlobifyFile(editor.document), the
\* collection not passed.
Command(uri) ==
    /\ LanguageAt(uri) = "blobify"
    /\ ValidateBlobifyFileCall("command", uri, TextAt(uri), FALSE)
    /\ UNCHANGED <<document, otherDocument, languageId, otherLanguageId,
                   validationEnabled, completion, edits>>

OnDidChangeTextDocument == \E uri \in Uris : Change(uri)

OnDidSaveTextDocument == \E uri \in Uris : Save(uri)

ValidateCommand == \E uri \in Uris : Command(uri)

\* The user switches the setting blobify.validation.enabled.  No handler
\* and no line of validateBlobifyFile reads it.
SetValidationEnabled ==
    /\ validationEnabled' = ~validationEnabled
    /\ UNCHANGED <<document, diagnostics, languageId, otherDocument,
                   otherDiagnostics, otherLanguageId, lastCall, completion,
                   edits>>

\* The command blobify.format with the document uri in the active editor:
\* when its language is blobify, editor.action.formatDocument, which asks
\* the formatter for its edits and applies them; a text that changes fires
\* onDidChangeTextDocument.
Format(uri) ==
    LET textEdits == ProvideDocumentFormattingEdits(TextAt(uri))
        text == ApplyEdits(TextAt(uri), textEdits)
    IN  /\ LanguageAt(uri) = "blobify"
        /\ edits' = [uri |-> uri, source |-> TextAt(uri), items |-> textEdits]
        /\ document' = (IF uri = "A" THEN text ELSE document)
        /\ otherDocument' = (IF uri = "B" THEN text ELSE otherDocument)
        /\ IF text # TextAt(uri)
           THEN ValidateBlobifyFileCall("change", uri, text, TRUE)
           ELSE UNCHANGED <<diagnostics, otherDiagnostics, lastCall>>
        /\ UNCHANGED <<languageId, otherLanguageId, validationEnabled,
                       completion>>

FormatCommand == \E uri \in Uris : Format(uri)

\* A completion is asked for in the document "A", of language blobify, the
\* one the provider is registered for, the cursor on a line of
\* it and at a column of that line; a trigger character is the character
\* just typed, the one before the cursor.
CompletionRequest ==
    \E line \in 0..(Len(document) - 1) :
        \E character \in 0..Len(document[line + 1]) :
            \E trigger \in Triggers :
                /\ languageId = "blobify"
                /\ trigger # "invoke" =>
                       /\ character >= 1
                       /\ document[line + 1][character] = trigger
                /\ completion' = ProvideCompletionItems(document, line,
                                                        character, trigger)
                /\ UNCHANGED <<document, diagnostics, languageId, otherDocument,
                               otherDiagnostics, otherLanguageId,
                               validationEnabled, lastCall, edits>>

NextHost ==
    \/ OnDidChangeTextDocument
    \/ OnDidSaveTextDocument
    \/ ValidateCommand
    \/ FormatCommand
    \/ SetValidationEnabled

SpecHost == InitHost /\ [][NextHost]_vars

InitEditor ==
    /\ document \in SeqsUpTo(EditorLines, MaxEditorLines)
    /\ OneDocument

NextEditor ==
    \/ FormatCommand
    \/ CompletionRequest

SpecEditor == InitEditor /\ [][NextEditor]_vars


-----------------------------------------------------------------------------
(* Vocabulary of the properties, read off the text of the document.        *)

Validated == diagnostics.set

LineNumbers == 0..(Len(document) - 1)

\* The trimmed text of line i (0-based).
TextOf(i) == Trim(document[i + 1])

\* The diagnostics addressed to line i, in order.
DiagsOn(i) == SelectSeq(diagnostics.items, LAMBDA d : d.line = i)

IsHeaderLine(i) ==
    StartsWith(TextOf(i), <<"[">>) /\ EndsWith(TextOf(i), <<"]">>)

\* What stands between the brackets of header line i.
ContentOf(i) == SubSeq(TextOf(i), 2, Len(TextOf(i)) - 1)

\* Header line i has the form name:parents, a non-empty text before its
\* first colon and a non-empty text after it.
IsInheritLine(i) ==
    /\ IsHeaderLine(i)
    /\ IndexOf(ContentOf(i), ":") >= 2
    /\ IndexOf(ContentOf(i), ":") < Len(ContentOf(i))

\* The name header line i declares.
NameOf(i) ==
    IF IsInheritLine(i)
    THEN Trim(SubSeq(ContentOf(i), 1, IndexOf(ContentOf(i), ":") - 1))
    ELSE ContentOf(i)

\* The parents header line i lists, in order.
ParentListOf(i) ==
    IF IsInheritLine(i)
    THEN FilterNonEmpty(MapTrim(Split(
             SubSeq(ContentOf(i), IndexOf(ContentOf(i), ":") + 1, Len(ContentOf(i))),
             ",")))
    ELSE <<>>

\* The names declared by the headers on the lines before line i.
NamesBefore(i) ==
    { NameOf(k) : k \in { k \in 0..(i - 1) : IsHeaderLine(k) } } \ { <<>> }

\* Header line i has the form [A:B]: a name and exactly one parent.
IsSingleParentLine(i) ==
    IsInheritLine(i) /\ NameOf(i) # <<>> /\ Len(ParentListOf(i)) = 1

\* The number of entries of ds that satisfy Test.
CountOf(ds, Test(_)) == Len(SelectSeq(ds, Test))

IsParentNotFound(d, parent) ==
    d.message = MsgParentNotFound /\ d.args = <<parent>> /\ d.severity = "Error"

IsDuplicate(d, name) ==
    d.message = MsgDuplicate /\ d.args = <<name>> /\ d.severity = "Error"

IsRedefineDefault(d) ==
    d.message = MsgRedefineDefault /\ d.severity = "Error"

IsReferential(d) ==
    d.message \in {MsgParentNotFound, MsgDuplicate, MsgRedefineDefault}

\* The parents of header line i that are neither 'default' nor declared on
\* an earlier line, in order.
UnknownParentsOf(i) ==
    SelectSeq(ParentListOf(i),
              LAMBDA p : p # S_default /\ p \notin NamesBefore(i))

-----------------------------------------------------------------------------
(* Properties of the context headers, under SpecCtx.                       *)

\* C1: the parents of a header are resolved against 'default' and the names
\* declared on strictly earlier lines only: a header with a new name that
\* lists a parent which is neither, itself included, gets a "Parent context
\* not found" Error for that parent on its own line.
C1_ParentsResolvedAgainstEarlierLines ==
    Validated =>
        \A i \in LineNumbers :
            (IsInheritLine(i) /\ NameOf(i) # <<>> /\ NameOf(i) \notin NamesBefore(i))
            => \A k \in 1..Len(UnknownParentsOf(i)) :
                   CountOf(DiagsOn(i),
                           LAMBDA d : IsParentNotFound(d, UnknownParentsOf(i)[k])) >= 1

\* C2: a document without any diagnostic has an acyclic inheritance
\* relation: every parent a header lists is 'default' or is declared on a
\* strictly earlier line.
C2_NoDiagnosticImpliesAcyclic ==
    (Validated /\ diagnostics.items = <<>>) =>
        \A i \in LineNumbers :
            IsHeaderLine(i) => UnknownParentsOf(i) = <<>>

C4_UndefinedParentExactlyOneError ==
    Validated =>
        \A i \in LineNumbers :
            (IsSingleParentLine(i) /\ Len(UnknownParentsOf(i)) = 1)
            => CountOf(DiagsOn(i),
                       LAMBDA d : IsParentNotFound(d, ParentListOf(i)[1])) = 1

\* C5 as stated: a header [A:B] whose B is declared on an earlier line gets
\* no referential diagnostic (undefined parent, duplicate name, redefinition
\* of 'default') on its line.
C5_DeclaredParentNoReferential ==
    Validated =>
        \A i \in LineNumbers :
            (IsSingleParentLine(i) /\ ParentListOf(i)[1] \in NamesBefore(i))
            => CountOf(DiagsOn(i), IsReferential) = 0

\* C5 as amended: a header [A:B] whose B is declared on an earlier line gets
\* no "Parent context not found" diagnostic on its line, and no diagnostic
\* at all unless A is 'default' or is itself declared on an earlier line.
C5_DeclaredParentNotReported ==
    Validated =>
        \A i \in LineNumbers :
            (IsSingleParentLine(i) /\ ParentListOf(i)[1] \in NamesBefore(i))
            => /\ CountOf(DiagsOn(i), LAMBDA d : d.message = MsgParentNotFound) = 0
               /\ (NameOf(i) # S_default /\ NameOf(i) \notin NamesBefore(i))
                  => DiagsOn(i) = <<>>

\* A header [A:B] with a new name A and a B declared earlier has been
\* validated.
C5_Witness ==
    /\ Validated
    /\ \E i \in LineNumbers :
           /\ IsSingleParentLine(i)
           /\ ParentListOf(i)[1] \in NamesBefore(i)
           /\ NameOf(i) # S_default
           /\ NameOf(i) \notin NamesBefore(i)
           /\ ParentListOf(i)[1] # NameOf(i)

\* The header lines of the document that declare name.
HeadersNamed(name) ==
    { i \in LineNumbers : IsHeaderLine(i) /\ NameOf(i) = name }

Least(S) == CHOOSE x \in S : \A y \in S : x <= y
Greatest(S) == CHOOSE x \in S : \A y \in S : x >= y

-----------------------------------------------------------------------------
(* Properties of the option lines, under SpecOpt.                          *)

\* Line i is @name or @name=value for a name of names and a non-empty value.
IsOptionOf(i, names) ==
    \E n \in names :
        \/ TextOf(i) = OptionText(n)
        \/ \E v \in OptionValues : TextOf(i) = OptionValueText(n, v)

\* Line i is @name=value for a name of names and a value of values.
IsOptionWithValue(i, names, values) ==
    \E n \in names : \E v \in values : TextOf(i) = OptionValueText(n, v)

\* The diagnostics of line i are one Warning with this message.
OneWarning(i, text) ==
    /\ Len(DiagsOn(i)) = 1
    /\ DiagsOn(i)[1].severity = "Warning"
    /\ DiagsOn(i)[1].message = text

C8_UnknownOptionWarned ==
    Validated =>
        \A i \in LineNumbers :
            IsOptionOf(i, UnknownOptionNames)
            => /\ CountOf(DiagsOn(i), LAMBDA d : d.severity = "Warning") >= 1
               /\ CountOf(DiagsOn(i), LAMBDA d : d.severity = "Error") = 0

\* C9 as stated: '@' and an identifier of letters, digits, hyphens and
\* underscores, with an optional =value, never gets "Invalid option syntax".
C9_IdentifierWithDigitsAccepted ==
    Validated =>
        \A i \in LineNumbers :
            IsOptionOf(i, booleanOptions \cup {S_list_patterns}
                          \cup UnknownOptionNames \cup DigitOptionNames)
            => CountOf(DiagsOn(i), LAMBDA d : d.message = MsgInvalidOption) = 0

\* C9 as amended: '@' and an identifier of letters, hyphens and underscores,
\* with an optional =value, never gets "Invalid option syntax"; with a digit
\* in the identifier the line gets that Error and nothing else.
C9_IdentifierWithoutDigitsAccepted ==
    Validated =>
        \A i \in LineNumbers :
            /\ IsOptionOf(i, booleanOptions \cup {S_list_patterns}
                             \cup UnknownOptionNames)
               => CountOf(DiagsOn(i), LAMBDA d : d.message = MsgInvalidOption) = 0
            /\ IsOptionOf(i, DigitOptionNames)
               => /\ Len(DiagsOn(i)) = 1
                  /\ DiagsOn(i)[1].message = MsgInvalidOption
                  /\ DiagsOn(i)[1].severity = "Error"

\* An option line with a digit in its name has been validated, and one with
\* a hyphen and one with an underscore too.
C9_Witness ==
    /\ Validated
    /\ \E i \in LineNumbers : IsOptionOf(i, DigitOptionNames)
    /\ \E i \in LineNumbers : IsOptionOf(i, {S_x_y}) \/ IsOptionOf(i, {S_output_index})

\* C10: a known boolean option gets exactly one Warning when its value is
\* present and is not exactly true or false, and nothing when the value is
\* true, false or absent; list-patterns gets exactly one Warning when its
\* value is present and is not none, ignored or contexts, and nothing
\* otherwise; no line that starts with '@' and is no filter gets more than
\* one diagnostic.
C10_OptionValueWarnings ==
    Validated =>
        \A i \in LineNumbers :
            /\ IsOptionWithValue(i, booleanOptions, OptionValues \ {S_true, S_false})
               => OneWarning(i, MsgBooleanOption)
            /\ ( \/ \E n \in booleanOptions : TextOf(i) = OptionText(n)
                 \/ IsOptionWithValue(i, booleanOptions, {S_true, S_false}) )
               => DiagsOn(i) = <<>>
            /\ IsOptionWithValue(i, {S_list_patterns}, OptionValues \ listPatternsValues)
               => OneWarning(i, MsgListPatterns)
            /\ ( \/ TextOf(i) = OptionText(S_list_patterns)
                 \/ IsOptionWithValue(i, {S_list_patterns}, listPatternsValues) )
               => DiagsOn(i) = <<>>
            /\ (StartsWith(TextOf(i), <<"@">>) /\ ~StartsWith(TextOf(i), S_filterPrefix))
               => Len(DiagsOn(i)) <= 1

\* A boolean option with the value maybe has been validated and has its
\* Warning.
C10_Witness ==
    /\ Validated
    /\ \E i \in LineNumbers :
           /\ TextOf(i) = OptionValueText(S_output_line_numbers, S_maybe)
           /\ OneWarning(i, MsgBooleanOption)

-----------------------------------------------------------------------------
(* Filters: the order of the two forms.                                    *)

\* Line i is the filter line of content.
IsFilterOf(i, contents) == \E c \in contents : TextOf(i) = FilterText(c)

IsConsiderCSV(d) == d.message = MsgConsiderCSV /\ d.severity = "Information"
IsInvalidFilter(d) == d.message = MsgInvalidFilter /\ d.severity = "Error"
IsInvalidRegex(d) == d.message = MsgInvalidRegex /\ d.severity = "Error"
IsFilterNameEmpty(d) == d.message = MsgFilterNameEmpty /\ d.severity = "Error"

\* C11: a filter whose content is CSV (quoted at both ends, one record of
\* two or three non-empty fields) is validated as CSV, with or without a
\* colon in it: it gets findings about its name and its regex only, never
\* the hint to migrate and never 'Invalid filter syntax'; a content that
\* is no CSV and has the form name:regex is validated as legacy and ends
\* with the one hint to migrate; a content of neither form gets exactly one
\* Error 'Invalid filter syntax' and nothing else.
C11_CsvBeforeLegacy ==
    Validated =>
        \A i \in LineNumbers :
            /\ IsFilterOf(i, CsvContents) =>
                   \A k \in 1..Len(DiagsOn(i)) :
                       IsInvalidRegex(DiagsOn(i)[k]) \/ IsFilterNameEmpty(DiagsOn(i)[k])
            /\ IsFilterOf(i, LegacyContents) =>
                   /\ CountOf(DiagsOn(i), IsConsiderCSV) = 1
                   /\ IsConsiderCSV(DiagsOn(i)[Len(DiagsOn(i))])
                   /\ CountOf(DiagsOn(i), IsInvalidFilter) = 0
            /\ IsFilterOf(i, NeitherContents) =>
                   /\ Len(DiagsOn(i)) = 1
                   /\ IsInvalidFilter(DiagsOn(i)[1])

\* A validated document with a CSV filter that has a colon in a field, a
\* legacy filter and a filter of neither form.
C11_Witness ==
    /\ Validated
    /\ \E i \in LineNumbers : IsFilterOf(i, {F_csvColon, F_csvColonBad})
    /\ \E i \in LineNumbers : IsFilterOf(i, LegacyContents \cup NeitherContents)

-----------------------------------------------------------------------------
(* Filters: the regex handed to the compiler.                              *)

R_a == <<"a">>
R_open == <<"(">>                       \* (
R_escOpen == <<"\\", "(">>              \* \(
R_escEscOpen == <<"\\", "\\", "(">>     \* \\(
R_def == <<"^", "\\", "s", "*", "d", "e", "f", "\\", "s", "+">>  \* ^\s*def\s+

\* The regex each content hands to the compiler, and the message of the
\* engine, "" when the regex compiles.
CompileTable ==
    { [content |-> F_csv2,         source |-> R_a,          error |-> ""],
      [content |-> F_csv3,         source |-> R_a,          error |-> ""],
      [content |-> F_csvColon,     source |-> <<"a", ":", "b">>, error |-> ""],
      [content |-> F_csvColonBad,  source |-> R_open,       error |-> "Unterminated group"],
      [content |-> F_csvBad,       source |-> R_open,       error |-> "Unterminated group"],
      [content |-> F_csvEsc2,      source |-> R_escOpen,    error |-> ""],
      [content |-> F_csvEsc4,      source |-> R_escOpen,    error |-> ""],
      [content |-> F_csvEsc8,      source |-> R_escEscOpen, error |-> "Unterminated group"],
      [content |-> F_csvSpec,      source |-> R_def,        error |-> ""],
      [content |-> F_legacy,       source |-> R_a,          error |-> ""],
      [content |-> F_legacyBad,    source |-> <<"(", "u">>, error |-> "Unterminated group"],
      [content |-> F_legacyEsc1,   source |-> R_escOpen,    error |-> ""],
      [content |-> F_legacyEsc2,   source |-> R_escEscOpen, error |-> "Unterminated group"],
      [content |-> F_legacyBlank,  source |-> R_a,          error |-> ""],
      [content |-> F_legacyQuoted, source |-> <<"\"", "a", "\"">>, error |-> ""],
      [content |-> F_legacySpec,   source |-> <<"^", "d", "e", "f", "\\", "s", "+">>, error |-> ""] }

IsError(d) == d.severity = "Error"

\* C12: a CSV filter hands its regex to the compiler after one round of
\* replacing each doubled backslash by one, a legacy filter hands it over
\* as written; in both forms a regex that does not compile gets exactly one
\* Error 'Invalid regex pattern' with the message of the engine on the line
\* of the filter, and a regex that compiles gets none: the line has no Error
\* at all unless the name of the filter is blank.
C12_RegexCompiledAfterUnescape ==
    Validated =>
        \A i \in LineNumbers : \A t \in CompileTable :
            TextOf(i) = FilterText(t.content) =>
                /\ RegExpError(t.source) = t.error
                /\ CountOf(DiagsOn(i), IsInvalidRegex) = (IF t.error = "" THEN 0 ELSE 1)
                /\ \A k \in 1..Len(DiagsOn(i)) :
                       IsInvalidRegex(DiagsOn(i)[k]) => DiagsOn(i)[k].args = <<t.error>>
                /\ (t.error = "" /\ t.content # F_legacyBlank)
                       => CountOf(DiagsOn(i), IsError) = 0

\* A validated document with a CSV filter whose regex compiles only once it
\* is unescaped and a legacy filter whose regex fails as written.
C12_Witness ==
    /\ Validated
    /\ \E i \in LineNumbers :
           /\ IsFilterOf(i, {F_csvEsc4})
           /\ CountOf(DiagsOn(i), IsInvalidRegex) = 0
    /\ \E i \in LineNumbers :
           /\ IsFilterOf(i, {F_legacyEsc2})
           /\ CountOf(DiagsOn(i), IsInvalidRegex) = 1

-----------------------------------------------------------------------------
(* Patterns.                                                               *)

\* Line i starts with a sign, after the whitespace that may lead it.
IsPatternLine(i) ==
    StartsWith(TextOf(i), <<"+">>) \/ StartsWith(TextOf(i), <<"-">>)

\* Nothing but whitespace follows the sign of pattern line i.
IsSignOnly(i) ==
    LET first == CHOOSE k \in 1..Len(document[i + 1]) :
                     /\ document[i + 1][k] \notin WhiteSpace
                     /\ \A j \in 1..(k - 1) : document[i + 1][j] \in WhiteSpace
    IN  \A k \in (first + 1)..Len(document[i + 1]) :
            document[i + 1][k] \in WhiteSpace

IsEmptyPattern(d) == d.message = MsgEmptyPattern /\ d.severity = "Error"

\* C13: a line that starts with '+' or '-' gets exactly one diagnostic, the
\* Error 'Empty pattern', when nothing but whitespace follows the sign, and
\* no diagnostic when a pattern follows it.
C13_EmptyPattern ==
    Validated =>
        \A i \in LineNumbers :
            IsPatternLine(i) =>
                IF IsSignOnly(i)
                THEN Len(DiagsOn(i)) = 1 /\ IsEmptyPattern(DiagsOn(i)[1])
                ELSE DiagsOn(i) = <<>>

\* A validated document with a sign followed by whitespace only and a sign
\* followed by a pattern.
C13_Witness ==
    /\ Validated
    /\ \E i \in LineNumbers :
           IsPatternLine(i) /\ IsSignOnly(i) /\ Len(document[i + 1]) > 1
    /\ \E i \in LineNumbers : IsPatternLine(i) /\ ~IsSignOnly(i)

-----------------------------------------------------------------------------
(* The scan goes on after a finding.                                       *)

\* What the validator finds on line i taken alone, no diagnostic made so
\* far, the names of the earlier headers registered.
FindingsOf(i) ==
    LoopBody([contextNames |-> NamesBefore(i),
              definedContexts |-> NamesBefore(i) \cup {S_default},
              diagnosticItems |-> <<>>], i, document[i + 1]).diagnosticItems

\* The findings of the first n lines, each line taken alone.
RECURSIVE FindingsUpTo(_)
FindingsUpTo(n) ==
    IF n = 0 THEN <<>> ELSE FindingsUpTo(n - 1) \o FindingsOf(n - 1)

\* C14: no diagnostic stops the scan.  The diagnostics of a document are,
\* line after line up to the last, what each line yields given the names
\* the headers before it declare, whether or not an earlier line yielded a
\* diagnostic.
C14_NoDiagnosticStopsScan ==
    Validated => diagnostics.items = FindingsUpTo(Len(document))

\* A validated document of three lines whose first and last line both have
\* diagnostics.
C14_Witness ==
    /\ Validated
    /\ Len(document) = 3
    /\ DiagsOn(0) # <<>>
    /\ DiagsOn(2) # <<>>

-----------------------------------------------------------------------------
(* Where a diagnostic is addressed.                                        *)

IsFilterLine(i) == StartsWith(TextOf(i), S_filterPrefix)

IsOptionLine(i) == StartsWith(TextOf(i), <<"@">>) /\ ~IsFilterLine(i)

\* The text of line i is one that yields the diagnostic d.
TriggeredBy(d, i) ==
    CASE d.message = MsgEmptyContextName ->
             IsHeaderLine(i) /\ NameOf(i) = <<>>
      [] d.message = MsgDuplicate ->
             /\ IsHeaderLine(i)
             /\ d.args = <<NameOf(i)>>
             /\ NameOf(i) \in NamesBefore(i)
      [] d.message = MsgParentNotFound ->
             /\ IsInheritLine(i)
             /\ \E k \in 1..Len(ParentListOf(i)) : d.args = <<ParentListOf(i)[k]>>
             /\ d.args[1] \notin NamesBefore(i)
      [] d.message = MsgRedefineDefault ->
             IsHeaderLine(i) /\ NameOf(i) = S_default
      [] d.message \in {MsgFilterNameEmpty, MsgInvalidRegex, MsgConsiderCSV,
                        MsgInvalidFilter} ->
             ~IsHeaderLine(i) /\ IsFilterLine(i)
      [] d.message \in {MsgInvalidOption, MsgBooleanOption, MsgListPatterns} ->
             ~IsHeaderLine(i) /\ IsOptionLine(i)
      [] d.message = MsgEmptyPattern ->
             IsPatternLine(i) /\ IsSignOnly(i)
      [] d.message = MsgInvalidSyntax ->
             /\ TextOf(i) # <<>>
             /\ ~StartsWith(TextOf(i), <<"#">>)
             /\ ~IsHeaderLine(i) /\ ~IsFilterLine(i) /\ ~IsOptionLine(i)
             /\ ~IsPatternLine(i)
      [] OTHER -> FALSE

\* C15: in the sequence of diagnostics the line numbers never decrease, and
\* each diagnostic spans, from column 0 to its end, the 0-based line whose
\* own text yields it: a duplicate name is reported on the later header of
\* that name, a missing parent on the header that lists it.
C15_DiagnosticsAddressedToOwnLine ==
    Validated =>
        /\ \A k \in 1..(Len(diagnostics.items) - 1) :
               diagnostics.items[k].line <= diagnostics.items[k + 1].line
        /\ \A k \in 1..Len(diagnostics.items) :
               LET d == diagnostics.items[k]
               IN  /\ d.line \in LineNumbers
                   /\ d.endChar = Len(document[d.line + 1])
                   /\ TriggeredBy(d, d.line)

\* A validated document where a missing parent is reported on the header
\* that lists it and a duplicate on the second header of a name, the first
\* header of that name having no diagnostic.
C15_Witness ==
    /\ Validated
    /\ \E i \in LineNumbers :
           /\ IsInheritLine(i)
           /\ CountOf(DiagsOn(i), LAMBDA d : d.message = MsgParentNotFound) = 1
    /\ \E i, j \in LineNumbers :
           /\ i < j
           /\ IsHeaderLine(i) /\ IsHeaderLine(j) /\ NameOf(i) = NameOf(j)
           /\ DiagsOn(i) = <<>>
           /\ CountOf(DiagsOn(j), LAMBDA d : d.message = MsgDuplicate) = 1

-----------------------------------------------------------------------------
(* Runs of the validator in the extension.                                 *)

\* What the most recent call of validateBlobifyFile found.
LastFindings == lastCall.locals.diagnosticItems

\* The most recent call was made by one of handlers for the document uri.
LastCallWas(handlers, uri) ==
    lastCall.handler \in handlers /\ lastCall.uri = uri

\* C16: validation keeps no state between runs.  Whenever the diagnostics
\* stored for a document by one run are those of the text the most recent
\* run has validated, the two runs found the same sequence, whichever
\* validations ran between them.
C16_SameTextSameDiagnostics ==
    \A uri \in Uris :
        ( /\ Collection[uri].set
          /\ lastCall.handler # "none"
          /\ TextAt(uri) = TextAt(lastCall.uri) )
        => Collection[uri].items = LastFindings

\* The command has validated the document "A", whose diagnostics an earlier
\* run stored and are not empty, and the other document, of another text,
\* has been validated too.
C16_Witness ==
    /\ LastCallWas({"command"}, "A")
    /\ diagnostics.set /\ diagnostics.items # <<>>
    /\ otherDiagnostics.set
    /\ otherDocument # document

C18_CommandShowsDiagnostics ==
    \A uri \in Uris :
        LastCallWas({"command"}, uri)
        => /\ Collection[uri].set
           /\ Collection[uri].items = ValidateBlobifyFile(TextAt(uri))

\* C19: while blobify.validation.enabled is false, no event and no command
\* makes a validation compute anything or changes the stored diagnostics.
C19_DisabledValidatesNothing ==
    [][ ~validationEnabled
        => /\ lastCall' = lastCall
           /\ diagnostics' = diagnostics
           /\ otherDiagnostics' = otherDiagnostics ]_vars

\* C20: runs on different documents share no state.  The diagnostics
\* stored for a document change only by a change or a save of that very
\* document, and what they become are the findings of its own text,
\* whatever the other document declares.
C20_DocumentsShareNoState ==
    [][ \A uri \in Uris :
            Collection'[uri] # Collection[uri]
            => /\ lastCall'.uri = uri
               /\ lastCall'.handler \in {"change", "save"}
               /\ Collection'[uri].items = ValidateBlobifyFile(TextAt(uri)') ]_vars

\* Both documents are validated; "A" refers to a parent that only "B"
\* declares, and has the finding of the missing parent.
C20_Witness ==
    /\ LastCallWas({"change", "save"}, "A")
    /\ document = <<InheritText(N_b, <<N_a>>)>>
    /\ otherDocument = <<HeaderText(N_a)>>
    /\ otherDiagnostics = [set |-> TRUE, items |-> <<>>]
    /\ Len(diagnostics.items) = 1
    /\ IsParentNotFound(diagnostics.items[1], N_a)

-----------------------------------------------------------------------------
(* Severities.                                                             *)

ErrorMessages ==
    { MsgEmptyContextName, MsgEmptyPattern, MsgInvalidSyntax, MsgInvalidOption,
      MsgInvalidFilter, MsgParentNotFound, MsgDuplicate, MsgRedefineDefault,
      MsgInvalidRegex }

WarningMessages == { MsgBooleanOption, MsgListPatterns }

InformationMessages == { MsgConsiderCSV }

\* C21: the kind of a finding fixes its severity.  An empty context name,
\* an empty pattern, an invalid line, an invalid option syntax, an invalid
\* filter syntax, an undefined parent, a duplicate name, a redefinition of
\* 'default' and a regex that does not compile are Errors; a bad boolean or
\* list-patterns value is a Warning; the hint to migrate a legacy filter is
\* an Information.
C21_SeverityFixedByKind ==
    Validated =>
        \A k \in 1..Len(diagnostics.items) :
            LET d == diagnostics.items[k]
            IN  /\ d.message \in ErrorMessages => d.severity = "Error"
                /\ d.message \in WarningMessages => d.severity = "Warning"
                /\ d.message \in InformationMessages => d.severity = "Information"

\* A validated document with findings of the three severities.
C21_Witness ==
    /\ Validated
    /\ \E k \in 1..Len(diagnostics.items) :
           /\ diagnostics.items[k].message \in WarningMessages
           /\ diagnostics.items[k].severity = "Warning"
    /\ \E k \in 1..Len(diagnostics.items) :
           /\ diagnostics.items[k].message \in InformationMessages
           /\ diagnostics.items[k].severity = "Information"
    /\ \E k \in 1..Len(diagnostics.items) :
           /\ diagnostics.items[k].message \in ErrorMessages
           /\ diagnostics.items[k].severity = "Error"

-----------------------------------------------------------------------------
(* The diagnostics of one header.                                          *)

IsNameFinding(d) ==
    d.message \in {MsgEmptyContextName, MsgDuplicate, MsgRedefineDefault}

\* The kinds and spliced strings of the diagnostics ds, in order.
KindsOf(ds) == [k \in 1..Len(ds) |-> <<ds[k].message, ds[k].args>>]

\* The parents of header line i the validator reports, in the order they
\* are written: those that are neither 'default', nor the name of the
\* header itself, nor declared on an earlier line.
ReportedParentsOf(i) ==
    SelectSeq(ParentListOf(i),
              LAMBDA p : p \notin NamesBefore(i) \cup {S_default, NameOf(i)})

IsRepeatedHeader(i) ==
    IsHeaderLine(i) /\ NameOf(i) # <<>> /\ NameOf(i) \in NamesBefore(i)

-----------------------------------------------------------------------------
(* Legacy filters.                                                         *)

\* The legacy contents whose name is blank, and those whose regex does not
\* compile.
BlankNameLegacy == { F_legacyBlank, F_legacyBlankBad }
FailingRegexLegacy == { F_legacyBad, F_legacyEsc2, F_legacyBlankBad }

\* C24: a filter validated in the legacy form gets exactly one Information,
\* the hint to use the CSV form, whether or not its regex compiles and its
\* name is blank; it gets no Error exactly when its name is not blank and
\* its regex compiles.
C24_LegacyAlwaysHinted ==
    Validated =>
        \A i \in LineNumbers : \A c \in LegacyContents :
            TextOf(i) = FilterText(c) =>
                /\ CountOf(DiagsOn(i), IsConsiderCSV) = 1
                /\ CountOf(DiagsOn(i), LAMBDA d : d.severity = "Information") = 1
                /\ (CountOf(DiagsOn(i), IsError) = 0)
                       <=> (c \notin BlankNameLegacy \cup FailingRegexLegacy)

\* A validated document with the legacy filter of the specification, which
\* has the hint and no Error, and a legacy filter with a blank name and a
\* regex that does not compile, which has the hint and two Errors.
C24_Witness ==
    /\ Validated
    /\ \E i \in LineNumbers :
           /\ TextOf(i) = FilterText(F_legacySpec)
           /\ Len(DiagsOn(i)) = 1
    /\ \E i \in LineNumbers :
           /\ TextOf(i) = FilterText(F_legacyBlankBad)
           /\ CountOf(DiagsOn(i), IsError) = 2
           /\ CountOf(DiagsOn(i), IsConsiderCSV) = 1

-----------------------------------------------------------------------------
(* A reported header is registered.                                        *)

\* Header line i is reported for a parent or for redefining 'default'.
IsReportedHeader(i) ==
    /\ IsHeaderLine(i)
    /\ \E k \in 1..Len(DiagsOn(i)) :
           DiagsOn(i)[k].message \in {MsgParentNotFound, MsgRedefineDefault}

\* C25: a header reported for an undefined parent or for redefining
\* 'default' is registered all the same: no later header that lists its
\* name as a parent is reported for that parent, and a later header of the
\* same name gets the Duplicate Error.  When the scan ends, the registered
\* names are those of all the headers but the ones with an empty name, a
\* repeated name adding nothing.
C25_ReportedHeaderRegistered ==
    Validated =>
        /\ \A i, j \in LineNumbers :
               (i < j /\ IsReportedHeader(i) /\ IsHeaderLine(j)) =>
                   /\ CountOf(DiagsOn(j),
                              LAMBDA d : IsParentNotFound(d, NameOf(i))) = 0
                   /\ NameOf(j) = NameOf(i) =>
                          /\ Len(DiagsOn(j)) = 1
                          /\ IsDuplicate(DiagsOn(j)[1], NameOf(i))
        /\ lastCall.locals.contextNames = NamesBefore(Len(document))
        /\ lastCall.locals.definedContexts
               = NamesBefore(Len(document)) \cup {S_default}

\* A validated document where a header reported for its parent is the
\* parent of a later header of another, new name.
C25_Witness ==
    /\ Validated
    /\ \E i, j \in LineNumbers :
           /\ i < j
           /\ IsReportedHeader(i)
           /\ IsInheritLine(j)
           /\ \E k \in 1..Len(ParentListOf(j)) : ParentListOf(j)[k] = NameOf(i)
           /\ NameOf(j) # NameOf(i)
           /\ NameOf(j) \notin NamesBefore(j)

-----------------------------------------------------------------------------
(* The completion provider and the formatter.                              *)

\* The provider has returned items for a cursor on line completion.line.
Offered == completion.returned = "items"

\* The names the completion offers, as a set.
OfferedNames == { completion.items[k] : k \in 1..Len(completion.items) }

\* The defined-context set of the validator as it stands before line i.
DefinedBefore(i) == ScanPrefix(document, i).definedContexts

\* C26: the completion provider and the validator agree on which contexts
\* exist.  Every name offered for a header on line L belongs to the
\* validator's defined-context set as it stands before line L.
C26_OfferedNamesAreDefined ==
    Offered => OfferedNames \subseteq DefinedBefore(completion.line)

\* getAvailableParentContexts has been reached for line completion.line.
Scanned == completion.scanned

\* The list getAvailableParentContexts has returned, and its names.
Available == completion.available
AvailableNames == { Available[k] : k \in 1..Len(Available) }

\* The lines strictly above the cursor line that are context headers, and
\* the names they declare, without surrounding spaces.
HeadersAbove == { k \in 0..(completion.line - 1) : IsHeaderLine(k) }
HeaderNamesAbove == { Trim(NameOf(k)) : k \in HeadersAbove }

\* The list holds no 'default', no empty name, no name twice, and is in
\* ascending order.
AvailableWellFormed ==
    /\ S_default \notin AvailableNames
    /\ <<>> \notin AvailableNames
    /\ \A j, k \in 1..Len(Available) : j < k => StringLess(Available[j], Available[k])

\* C27: the list getAvailableParentContexts returns for cursor line L holds
\* only names taken from context headers on lines strictly above L, never
\* 'default' or an empty name, no name twice, in ascending order; and
\* provideCompletionItems returns undefined when the list is empty.
C27_AvailableFromHeadersAbove ==
    Scanned =>
        /\ AvailableNames \subseteq HeaderNamesAbove
        /\ AvailableWellFormed
        /\ (Available = <<>> => completion.returned = "undefined")

\* The lines strictly above the cursor line that begin with a bracketed
\* text, whatever follows it, and the names in their brackets.
BracketedAbove ==
    { k \in 0..(completion.line - 1) :
        StartsWith(TextOf(k), <<"[">>) /\ IndexOf(Tail(TextOf(k)), "]") >= 2 }
BracketedNameOf(k) ==
    LET inside == SubSeq(TextOf(k), 2, IndexOf(Tail(TextOf(k)), "]"))
    IN  Trim(Head(Split(inside, ":")))

\* What does hold of the list: its names stand in brackets at the start of
\* lines strictly above the cursor line, and it is well formed.
AvailableFromBracketedAbove ==
    Scanned =>
        /\ AvailableNames \subseteq { BracketedNameOf(k) : k \in BracketedAbove }
        /\ AvailableWellFormed
        /\ (Available = <<>> => completion.returned = "undefined")

\* The formatter has run for the document edits.uri; its text before was
\* edits.source and the edits it emitted are edits.items.
Formatted == edits.uri # "none"

\* The edits emitted for line i of the source, in order.
EditsOn(i) == SelectSeq(edits.items, LAMBDA e : e.line = i)

\* Line i of the source is whitespace only.
IsBlankSource(i) == Trim(edits.source[i + 1]) = <<>>

-----------------------------------------------------------------------------
(* Documents of other languages.                                           *)

-----------------------------------------------------------------------------
(* The name a header registers.                                            *)

\* The name text of header line i as written: what stands before the first
\* colon, or between the brackets when there is no colon.
NameTextOf(i) ==
    IF IndexOf(ContentOf(i), ":") = 0 THEN ContentOf(i)
    ELSE SubSeq(ContentOf(i), 1, IndexOf(ContentOf(i), ":") - 1)

\* Header line i declares no parents; header line i has the form [n:default].
IsPlainLine(i) == IsHeaderLine(i) /\ IndexOf(ContentOf(i), ":") = 0
IsDefaultChildLine(i) == IsInheritLine(i) /\ ParentListOf(i) = <<S_default>>

\* Header line j comes after line i and is the first to repeat its name
\* text.
FirstRespelling(i, j) ==
    /\ i < j
    /\ NameTextOf(i) = NameTextOf(j)
    /\ \A k \in LineNumbers :
           (k < j /\ k # i /\ IsHeaderLine(k)) => Trim(NameTextOf(k)) # Trim(NameTextOf(i))

\* C30: the name a header registers does not depend on whether the header
\* declares parents.  Of two headers [n] and [n:default] with the same name
\* text n, spaces included, the later one gets the Duplicate Error; and a
\* header that lists the trimmed n as a parent after [n] gets no 'Parent
\* context not found' Error for it.
C30_NameIndependentOfParents ==
    Validated =>
        \A i, j \in LineNumbers :
            /\ ( /\ FirstRespelling(i, j)
                 /\ \/ IsPlainLine(i) /\ IsDefaultChildLine(j)
                    \/ IsDefaultChildLine(i) /\ IsPlainLine(j) )
               => \E k \in 1..Len(DiagsOn(j)) : DiagsOn(j)[k].message = MsgDuplicate
            /\ ( /\ i < j
                 /\ IsPlainLine(i)
                 /\ IsInheritLine(j) )
               => \A k \in 1..Len(DiagsOn(j)) :
                      ~IsParentNotFound(DiagsOn(j)[k], Trim(NameTextOf(i)))

====
